---- MODULE Spec2Model ----
(***************************************************************************)
(* Einbuergerungstest appointment bot: the location poller                 *)
(* (appointment_checker.py), the change detection of check_and_notify      *)
(* (bot.py) and the notifier's delivery loop (telegram_notifier.py).       *)
(*                                                                         *)
(* Representation of Python values:                                        *)
(*   - None / an absent optional value is the empty tuple <<>>, a present  *)
(*     one is the one-element tuple <<v>>;                                 *)
(*   - a str is a tuple of string pieces: concatenation is \o,             *)
(*     "piece in s" is membership among the pieces, the empty str is <<>>; *)
(*   - a list is a tuple, a set is a set, a dict is a function;            *)
(*   - every datetime.now().isoformat() is the one value Now: the model  *)
(*     keeps which entries carry a time, not the time itself.              *)
(***************************************************************************)
EXTENDS Integers, Sequences, FiniteSets, TLC

\* ------------------------------------------------------------------ bounds
\* Number of registry entries of vhs_locations the model polls (the registry
\* itself has 12).
NumLocations == 4
\* Number of leading registry entries whose availability changes from one
\* cycle of the bot to the next.
NumVarying == 2
\* Number of Telegram chats that exist.
NumChats == 1

\* --------------------------------------------------------------- constants
max_redirects == 5

Now == "now"

None == <<>>
Some(v) == <<v>>

base_url == <<"https://service.berlin.de">>

RedirectCodes == {301, 302, 303, 307, 308}

TagPath == "/terminvereinbarung/termin/tag.php"
StopPath == "/terminvereinbarung/termin/stop/"
TakenPath == "/terminvereinbarung/termin/taken/"
DayPath == "/terminvereinbarung/termin/day/"

\* The registry, in its insertion order.
AllLocations ==
  << [id |-> "122671", name |-> "Volkshochschule Treptow-Köpenick"],
     [id |-> "325853", name |-> "Volkshochschule City West"],
     [id |-> "351438", name |->
        "Volkshochschule Friedrichshain-Kreuzberg (Standort Friedrichshain)"],
     [id |-> "351444", name |->
        "Volkshochschule Friedrichshain-Kreuzberg (Standort Kreuzberg)"],
     [id |-> "122626", name |-> "Volkshochschule Lichtenberg"],
     [id |-> "122628", name |-> "Volkshochschule Marzahn-Hellersdorf"],
     [id |-> "351636", name |-> "Volkshochschule Mitte - Antonstraße"],
     [id |-> "122659", name |-> "Volkshochschule Neukölln"],
     [id |-> "122664", name |-> "Volkshochschule Reinickendorf"],
     [id |-> "122666", name |-> "Volkshochschule Spandau"],
     [id |-> "325987", name |->
        "Volkshochschule Steglitz-Zehlendorf - Goethestraße"],
     [id |-> "351435", name |-> "Volkshochschule Tempelhof-Schöneberg"] >>

vhs_locations == SubSeq(AllLocations, 1, NumLocations)

LocationIndex == 1..Len(vhs_locations)
LocationNames == {vhs_locations[i].name : i \in LocationIndex}

\* ------------------------------------------------------------ str helpers
\* s.startswith('http')
StartsWithHttp(s) ==
  /\ Len(s) > 0
  /\ s[1] \in {"http://other.example", "https://service.berlin.de"}

\* The element of a set of one element.
TheOnly(S) == CHOOSE x \in S : TRUE

\* piece in s
Contains(s, piece) == \E i \in 1..Len(s) : s[i] = piece

\* The request URL of a location (the f-strings of check_appointments).
RequestUrl(location_id) ==
  IF location_id = "122671"
    THEN base_url \o <<TagPath,
           "?id=4067&anliegen%5b%5d=351180&termin=1&dienstleister=122671&anliegen[]=351180">>
    ELSE base_url \o <<TagPath, "?termin=1&dienstleisterlist=", location_id,
           "&anliegenlist=351180">>

\* --------------------------------------------------------- the remote site
\* What the site answers to the k-th request of one redirect chain: either a
\* transport failure (client.get raises) or a response with a status code, a
\* Set-Cookie header (a tuple of [name, value, path] cookies, <<>> when the
\* header is absent), a Location header (a str, <<>> when absent) and an HTML body.
\* A script is a non-empty tuple of answers; the last one is repeated.
Reply(script, k) == IF k <= Len(script) THEN script[k] ELSE script[Len(script)]

TransportError == [kind |-> "error"]

Answer(code, cookie, loc, body) ==
  [kind |-> "response", status_code |-> code, set_cookie |-> cookie,
   location |-> loc, html |-> body]

\* An HTML body, by the features the classifier looks at:
\*   raises          "none", or where handling the body raises an exception:
\*                   "construct" (BeautifulSoup(html, ...), before the URL
\*                   is looked at) or "search" (a later find / find_all)
\*   calendar        a div.calendar-month-table exists
\*   td_in           td.buchbar cells inside that div (0 without the div)
\*   td_out          td.buchbar cells outside of it
\*   a_buchbar       a.buchbar links
\*   week_day        td/a elements of class calendar-week-day (not buchbar)
\*   alert_warning   a div.alert-warning exists
\*   alert           a div.alert exists
\*   keine_termin    a text node with both 'keine' and 'termin'
Html(raises, calendar, td_in, td_out, a_buchbar, week_day, alert_warning, alert, keine) ==
  [raises |-> raises, calendar |-> calendar, td_in |-> td_in, td_out |-> td_out,
   a_buchbar |-> a_buchbar, week_day |-> week_day,
   alert_warning |-> alert_warning, alert |-> alert, keine_termin |-> keine]

EmptyHtml == Html("none", FALSE, 0, 0, 0, 0, FALSE, FALSE, FALSE)

\* ------------------------------------------------- _follow_redirects_with_cookies
\* A str is a tuple of pieces; a cookie of a Set-Cookie header has a name, a
\* value and a Path attribute (None when the header has no attribute at
\* all). response.headers.get('set-cookie'): the text of the Set-Cookie
\* headers of the response, joined with ", ".
RECURSIVE HeaderText(_)
HeaderText(header) ==
  IF header = <<>> THEN <<>>
  ELSE LET cookie == Head(header)
           line == << cookie.name, "=", cookie.value >>
                     \o (IF cookie.path = None THEN <<>>
                         ELSE << ";", " Path=", cookie.path[1] >>)
       IN IF Tail(header) = <<>> THEN line
          ELSE line \o << ", " >> \o HeaderText(Tail(header))

\* The first place of name + '=' in a text from place i on, 0 when there is
\* none.
RECURSIVE FindName(_, _, _)
FindName(text, name, i) ==
  IF i >= Len(text) THEN 0
  ELSE IF text[i] = name /\ text[i + 1] = "=" THEN i
  ELSE FindName(text, name, i + 1)

\* The text from place i on up to the next name + '=' and up to the next
\* ';': with i the place after the first name + '=' of the text, this is
\* text.split(name + '=')[1].split(';')[0].
RECURSIVE ValueAt(_, _, _)
ValueAt(text, name, i) ==
  IF i > Len(text) THEN <<>>
  ELSE IF text[i] = ";" THEN <<>>
  ELSE IF i < Len(text) /\ text[i] = name /\ text[i + 1] = "=" THEN <<>>
  ELSE << text[i] >> \o ValueAt(text, name, i + 1)

\* The cookie map after a response: when the response has Set-Cookie headers
\* and their joined text contains 'Zmsappointment=', what follows it up to
\* the next ';' overwrites the entry. (The joined text is bound once.)
UpdateCookies(cookies, header) ==
  IF header = <<>> THEN cookies
  ELSE TheOnly({ IF FindName(text, "Zmsappointment", 1) = 0 THEN cookies
                 ELSE { << "Zmsappointment",
                           ValueAt(text, "Zmsappointment",
                                   FindName(text, "Zmsappointment", 1) + 2) >> }
                 : text \in { HeaderText(header) } })

\* The host of a URL.
Host(url) ==
  IF url[1] = "https://service.berlin.de" THEN "service.berlin.de"
  ELSE IF url[1] = "http://other.example" THEN "other.example"
  ELSE url[1]

\* The path of a URL up to its last '/', that '/' left out: the path a cookie
\* without a Path attribute gets from the request it answers.
Directory(url) ==
  IF url[2] = TagPath THEN "/terminvereinbarung/termin"
  ELSE IF url[2] = DayPath THEN "/terminvereinbarung/termin/day"
  ELSE IF url[2] = StopPath THEN "/terminvereinbarung/termin/stop"
  ELSE IF url[2] = TakenPath THEN "/terminvereinbarung/termin/taken"
  ELSE "/"

\* The cookie paths the path of a URL lies under, the longest first.
PathsOver(url) ==
  IF url[2] \in {DayPath, StopPath, TakenPath}
    THEN << Directory(url), "/terminvereinbarung/termin", "/" >>
  ELSE IF url[2] = TagPath THEN << "/terminvereinbarung/termin", "/" >>
  ELSE << "/" >>

CookieHosts == {"service.berlin.de", "other.example"}
CookiePaths ==
  {"/", "/terminvereinbarung/termin", "/terminvereinbarung/termin/day",
   "/terminvereinbarung/termin/stop", "/terminvereinbarung/termin/taken"}

\* self.client is one httpx.Client for all requests. It keeps the cookies of
\* every Set-Cookie header it received: per host and path the cookies as
\* [name, value], one of a name, in the order in which the names came first.
\* The host is that of the answered request, the path the Path attribute of
\* the cookie or, without one, the directory of the answered request.
NoCookies == [place \in CookieHosts \X CookiePaths |-> <<>>]

\* The cookies of one host and path with a cookie stored among them.
RECURSIVE Stored(_, _)
Stored(kept, cookie) ==
  IF kept = <<>> THEN << cookie >>
  ELSE IF Head(kept).name = cookie.name THEN << cookie >> \o Tail(kept)
  ELSE << Head(kept) >> \o Stored(Tail(kept), cookie)

StoreCookie(client_cookies, cookie, url) ==
  LET place == << Host(url),
                  IF cookie.path = None THEN Directory(url) ELSE cookie.path[1] >>
  IN [client_cookies EXCEPT ![place] =
        Stored(@, [name |-> cookie.name, value |-> << cookie.value >>])]

RECURSIVE StoreCookies(_, _, _)
StoreCookies(client_cookies, header, url) ==
  IF header = <<>> THEN client_cookies
  ELSE StoreCookies(StoreCookie(client_cookies, Head(header), url), Tail(header), url)

\* The cookies the client sends of its own to a URL: those it keeps for the
\* host of the URL and for a path the URL lies under, those of the longest
\* path first.
RECURSIVE KeptUnder(_, _, _)
KeptUnder(client_cookies, host, paths) ==
  IF paths = <<>> THEN <<>>
  ELSE client_cookies[<< host, Head(paths) >>]
         \o KeptUnder(client_cookies, host, Tail(paths))

KeptFor(client_cookies, url) ==
  IF Host(url) \in CookieHosts
    THEN KeptUnder(client_cookies, Host(url), PathsOver(url))
    ELSE <<>>

\* The cookies= argument as a tuple of [name, value]; the map holds no name
\* but Zmsappointment.
CookiesArgument(cookies) ==
  IF cookies = {} THEN <<>>
  ELSE LET c == CHOOSE c \in cookies : TRUE
       IN << [name |-> c[1], value |-> c[2]] >>

\* The Cookie header of client.get(url, cookies=cookies): the cookies the
\* client keeps for the URL, then those of the argument, which are cookies
\* of their own (of no host and of path '/'), go to any URL and do not
\* replace the kept ones of the same name.
CookieHeader(client_cookies, cookies, url) ==
  KeptFor(client_cookies, url) \o CookiesArgument(cookies)

\* The while loop. requests is the list of the requests issued so far, each
\* with the URL, the cookies= argument and the Cookie header it carried;
\* client_cookies is what self.client keeps. The result is the returned
\* response (None after a transport failure) together with that list and
\* with what the client keeps afterwards.
RECURSIVE WalkLoop(_, _, _, _, _, _, _)
WalkLoop(script, cookies, current_url, redirect_count, response, requests, client_cookies) ==
  IF ~(redirect_count < max_redirects)
    THEN [response |-> response, requests |-> requests,
          client_cookies |-> client_cookies]
    ELSE
      LET sent == Append(requests,
                         [url |-> current_url, cookies |-> cookies,
                          cookie_header |-> CookieHeader(client_cookies, cookies, current_url)])
          reply == Reply(script, Len(sent))
      IN IF reply.kind = "error"
           THEN [response |-> None, requests |-> sent,
                 client_cookies |-> client_cookies]
           ELSE
             LET got == [status_code |-> reply.status_code, url |-> current_url,
                         text |-> reply.html]
                 jar == UpdateCookies(cookies, reply.set_cookie)
                 kept == StoreCookies(client_cookies, reply.set_cookie, current_url)
             IN IF reply.status_code \in RedirectCodes
                  THEN IF reply.location # <<>>
                         THEN WalkLoop(script, jar,
                                IF ~StartsWithHttp(reply.location)
                                  THEN base_url \o reply.location
                                  ELSE reply.location,
                                redirect_count + 1, Some(got), sent, kept)
                         ELSE [response |-> Some(got), requests |-> sent,
                               client_cookies |-> kept]
                  ELSE [response |-> Some(got), requests |-> sent,
                        client_cookies |-> kept]

follow_redirects_with_cookies(script, initial_url, client_cookies) ==
  WalkLoop(script, {}, initial_url, 0, None, <<>>, client_cookies)

\* ------------------------------------------------------------ _parse_appointments
\* soup.find_all('td', class_='buchbar'): every td.buchbar of the document.
AllTdBuchbar(html) == html.td_in + html.td_out

\* soup.find_all(['td', 'a'], class_=['buchbar', 'calendar-week-day'])
AllBuchbarOrWeekDay(html) ==
  html.td_in + html.td_out + html.a_buchbar + html.week_day

AvailableDays(html) ==
  IF html.calendar THEN AllTdBuchbar(html) ELSE AllBuchbarOrWeekDay(html)

\* Indicators that leave out the search for a 'keine ... termin' text.
HasNoAppointmentsAlertsOnly(html) == html.alert_warning \/ html.alert

HasNoAppointments(html) ==
  html.alert_warning \/ html.alert \/ html.keine_termin

\* An except branch that reports the page as one without appointments.
ParseErrorAsNoAppointments(location_name) ==
  [status |-> "no_appointments", appointments |-> <<>>, location |-> location_name]

\* The except branch.
ParseError(location_name) ==
  [status |-> "parse_error", error |-> "exception", appointments |-> <<>>,
   location |-> location_name]

parse_appointments(html, location_name, location_id, final_url) ==
  IF html.raises = "construct"
    THEN ParseError(location_name)
  ELSE IF Contains(final_url, StopPath)
    THEN [status |-> "no_appointments", appointments |-> <<>>,
          location |-> location_name]
  ELSE IF Contains(final_url, TakenPath)
    THEN [status |-> "no_appointments", appointments |-> <<>>,
          location |-> location_name]
  ELSE IF html.raises = "search"
    THEN ParseError(location_name)
  ELSE
    LET appointments ==
          IF AvailableDays(html) > 0
            THEN << [location_name |-> location_name, location_id |-> location_id,
                     has_slots |-> TRUE, slot_count |-> AvailableDays(html)] >>
            ELSE <<>>
    IN IF HasNoAppointments(html) /\ appointments = <<>>
         THEN [status |-> "no_appointments", appointments |-> <<>>,
               location |-> location_name]
         ELSE [status |-> "success", appointments |-> appointments,
               location |-> location_name]

\* -------------------------------------------------------------- check_appointments
EmptyDict == [n \in {} |-> 0]

DictSet(d, key, value) ==
  [k \in (DOMAIN d) \cup {key} |-> IF k = key THEN value ELSE d[k]]

\* The locals of check_appointments before the loop. visited lists, per loop
\* iteration, the location and the requests issued for it; client_cookies is
\* what self.client keeps, here nothing, as after construction. The returned
\* dict does not depend on it.
PollStart ==
  [all_appointments |-> <<>>, errors |-> <<>>, location_check_times |-> EmptyDict,
   visited |-> <<>>, client_cookies |-> NoCookies]

\* The same in a checker whose client keeps cookies of earlier calls.
PollStartWith(client_cookies) ==
  [PollStart EXCEPT !.client_cookies = client_cookies]

\* A loop iteration that records the check time only with a response.
PollLocationTimesResponses(acc, i, site, now) ==
  LET location_id == vhs_locations[i].id
      location_name == vhs_locations[i].name
      walked == follow_redirects_with_cookies(site[i], RequestUrl(location_id),
                                              acc.client_cookies)
      final_response == walked.response
      times == DictSet(acc.location_check_times, location_name, now)
      seen_here == Append(acc.visited,
                     [location_id |-> location_id, requests |-> walked.requests])
  IN IF final_response # None /\ final_response[1].status_code = 200
       THEN LET location_appointments ==
                  parse_appointments(final_response[1].text, location_name,
                                     location_id, final_response[1].url)
            IN [acc EXCEPT !.all_appointments = @ \o location_appointments.appointments,
                           !.location_check_times = times,
                           !.visited = seen_here,
                           !.client_cookies = walked.client_cookies]
     ELSE IF final_response # None
       THEN [acc EXCEPT !.errors = Append(@, <<location_name, ": HTTP ",
                                               final_response[1].status_code>>),
                        !.location_check_times = times,
                        !.visited = seen_here,
                        !.client_cookies = walked.client_cookies]
     ELSE [acc EXCEPT !.errors = Append(@, <<location_name, ": No response">>),
                      !.visited = seen_here,
                      !.client_cookies = walked.client_cookies]

\* One iteration of the loop over vhs_locations: the i-th registry entry,
\* answered by the site with site[i], at time now.
PollLocation(acc, i, site, now) ==
  LET location_id == vhs_locations[i].id
      location_name == vhs_locations[i].name
      walked == follow_redirects_with_cookies(site[i], RequestUrl(location_id),
                                              acc.client_cookies)
      final_response == walked.response
      times == DictSet(acc.location_check_times, location_name, now)
      seen_here == Append(acc.visited,
                     [location_id |-> location_id, requests |-> walked.requests])
  IN IF final_response # None /\ final_response[1].status_code = 200
       THEN LET location_appointments ==
                  parse_appointments(final_response[1].text, location_name,
                                     location_id, final_response[1].url)
            IN [acc EXCEPT !.all_appointments = @ \o location_appointments.appointments,
                           !.location_check_times = times,
                           !.visited = seen_here,
                           !.client_cookies = walked.client_cookies]
     ELSE IF final_response # None
       THEN [acc EXCEPT !.errors = Append(@, <<location_name, ": HTTP ",
                                               final_response[1].status_code>>),
                        !.location_check_times = times,
                        !.visited = seen_here,
                        !.client_cookies = walked.client_cookies]
     ELSE [acc EXCEPT !.errors = Append(@, <<location_name, ": No response">>),
                      !.location_check_times = times,
                      !.visited = seen_here,
                      !.client_cookies = walked.client_cookies]

RECURSIVE PollLoop(_, _, _, _)
PollLoop(acc, i, site, now) ==
  IF i > Len(vhs_locations) THEN acc
  ELSE PollLoop(PollLocation(acc, i, site, now), i + 1, site, now)

\* A returned dict whose status ignores the errors.
PollResultAlwaysSuccess(acc, now) ==
  [status |-> "success",
   appointments |-> acc.all_appointments,
   total_available |-> Len(acc.all_appointments),
   checked_at |-> now,
   location_check_times |-> acc.location_check_times,
   errors |-> IF acc.errors # <<>> THEN Some(acc.errors) ELSE None]

\* The returned dict.
PollResult(acc, now) ==
  [status |-> IF acc.errors = <<>> THEN "success" ELSE "partial_success",
   appointments |-> acc.all_appointments,
   total_available |-> Len(acc.all_appointments),
   checked_at |-> now,
   location_check_times |-> acc.location_check_times,
   errors |-> IF acc.errors # <<>> THEN Some(acc.errors) ELSE None]

check_appointments(site, now) == PollResult(PollLoop(PollStart, 1, site, now), now)

\* ------------------------------------------------------------------ inputs
\* Bodies and site scripts the cycles of the bot are run on.
CalendarHtml(n) == Html("none", TRUE, n, 0, 0, 0, FALSE, FALSE, FALSE)
AlertHtml == Html("none", FALSE, 0, 0, 0, 0, TRUE, TRUE, TRUE)
BrokenHtml == Html("construct", FALSE, 0, 0, 0, 0, FALSE, FALSE, FALSE)

\* Set-Cookie headers: the session cookie and another cookie, without
\* attributes, and a header with the attribute Path=/ on each of its cookies.
SessionCookie(v) == << [name |-> "Zmsappointment", value |-> v, path |-> None] >>
OtherCookie(v) == << [name |-> "Other", value |-> v, path |-> None] >>
Rooted(header) == [k \in 1..Len(header) |-> [header[k] EXCEPT !.path = Some("/")]]

\* 302 to the day page with a session cookie, then a calendar with two
\* bookable days.
SiteAvailable ==
  << Answer(302, SessionCookie("s1"), <<DayPath>>, EmptyHtml),
     Answer(200, <<>>, <<>>, CalendarHtml(2)) >>
\* 302 to the stop page.
SiteStop ==
  << Answer(302, SessionCookie("s1"), <<StopPath>>, EmptyHtml),
     Answer(200, <<>>, <<>>, AlertHtml) >>
\* The first request times out.
SiteTimeout == << TransportError >>
\* The second request of the chain times out.
SiteTimeoutLater ==
  << Answer(302, SessionCookie("s1"), <<DayPath>>, EmptyHtml), TransportError >>
\* HTTP 500.
SiteHttpError == << Answer(500, <<>>, <<>>, EmptyHtml) >>
\* 200 with a body the parser rejects.
SiteBroken == << Answer(200, <<>>, <<>>, BrokenHtml) >>
\* 200 with a body that shows neither slots nor a no-appointments indicator.
SiteBlank == << Answer(200, <<>>, <<>>, EmptyHtml) >>
\* 302 to the day page with two Set-Cookie headers without attributes, there
\* a 302 to the stop page with a new session cookie, then the stop page.
SiteCookies ==
  << Answer(302, SessionCookie("s1") \o OtherCookie("o1"), <<DayPath>>, EmptyHtml),
     Answer(302, SessionCookie("s2"), <<StopPath>>, EmptyHtml),
     Answer(200, <<>>, <<>>, AlertHtml) >>

\* What the site may answer to the cycles of the bot: any set of the first
\* NumVarying locations shows slots and the others the stop page; or the
\* first location, or every location, times out and the others show the stop
\* page; or the first location shows slots and the others time out.
CycleSites ==
  { [i \in LocationIndex |-> IF i \in S THEN SiteAvailable ELSE SiteStop] :
      S \in SUBSET (1..NumVarying) }
  \cup { [i \in LocationIndex |-> IF i <= k THEN SiteTimeout ELSE SiteStop] :
           k \in {1, Len(vhs_locations)} }
  \cup { [i \in LocationIndex |-> IF i = 1 THEN SiteAvailable ELSE SiteTimeout] }
\* What the client may keep when a run of the poller begins: nothing, or the
\* session cookie an earlier run received for tag.php.
EarlierRun == SessionCookie("s0")

PollClientCookies ==
  {NoCookies,
   StoreCookies(NoCookies, EarlierRun, RequestUrl(vhs_locations[1].id))}

\* What the site may answer to one run of the poller.
PollSites ==
  {SiteAvailable, SiteStop, SiteTimeout, SiteTimeoutLater, SiteHttpError,
   SiteBroken, SiteBlank, SiteCookies}

Chats == 1..NumChats

\* check_appointments on every input of the cycles, computed once.
CycleResult == [site \in CycleSites |-> check_appointments(site, Now)]
\* What check_appointments may return on those inputs.
CycleResults == {CycleResult[site] : site \in CycleSites}

\* ------------------------------------------------------------------- state
VARIABLES
  seen_locations_with_slots, \* EinburgerungstestBot.seen_locations_with_slots
  last_check_result,         \* EinburgerungstestBot.last_check_result
  location_last_checked,     \* EinburgerungstestBot.location_last_checked
  subscribers,               \* TelegramNotifier.subscribers
  pc,                        \* where each execution of check_and_notify stands
  frame,                     \* the locals of each suspended check_and_notify
  last_cycle,                \* the execution of check_and_notify that ended last
  flap,                      \* how far the latest executions follow the flapping scenario
  poll_site,                 \* the site one run of the poller talks to
  poll_i,                    \* the loop index of that run
  poll_acc,                  \* the locals of that run
  poll_result,               \* what that run returned
  manual,                    \* where manual_check stands, its locals and replies
  walk,                      \* one invocation of the redirect walker, step by step
  classify,                  \* one call of the classifier: its input and result
  notify                     \* the notifier alone: subscribers file and its sends

bot_vars == <<seen_locations_with_slots, last_check_result, location_last_checked,
              subscribers, pc, frame, last_cycle>>
poll_vars == <<poll_site, poll_i, poll_acc, poll_result>>
vars == <<seen_locations_with_slots, last_check_result, location_last_checked,
          subscribers, pc, frame, last_cycle, flap, poll_site, poll_i, poll_acc,
          poll_result, manual, walk, classify, notify>>
call_vars == <<manual, walk, classify, notify>>

\* No manual check, no walker invocation, no classifier call under way; the
\* notifier not followed on its own.
ManualIdle == [pc |-> "idle", result |-> None, replies |-> <<>>]
WalkIdle == [pc |-> "idle", location |-> 0, client_cookies |-> NoCookies]
ClassifyIdle == [pc |-> "idle"]
NotifyIdle == [pc |-> "idle"]

\* The two callers of check_and_notify: the awaited call of start() and the
\* job of the interval trigger.
Procs == {"initial", "scheduled"}

\* ------------------------------------------------------- check_and_notify
\* dict.get(key): None when the key is absent.
Get(d, key) == IF key \in DOMAIN d THEN Some(d[key]) ELSE None

\* Truth value of result.get('error'): no key 'error' means None, which is
\* false; a present value is true unless it is None or empty.
GetError(result) ==
  LET v == Get(result, "error")
  IN IF v = None THEN None ELSE v[1]

Truthy(v) == v # None

\* locations_with_slots of the loop over appointments.
LocationsWithSlots(appointments) ==
  {appointments[i].location_name : i \in 1..Len(appointments)}

\* new_locations without the subtraction of what was seen.
NewLocationsNoDedup(locations_with_slots, seen) == locations_with_slots

\* new_locations
NewLocations(locations_with_slots, seen) == locations_with_slots \ seen

\* new_appointments
NewAppointments(appointments, new_locations) ==
  SelectSeq(appointments, LAMBDA apt : apt.location_name \in new_locations)

\* The assignment after the notification lost: SeenState stays as it is.
ReplacedKeepsSeen(locations_with_slots) == seen_locations_with_slots

\* An assignment that keeps only the locations that were new.
ReplacedByNew(locations_with_slots) ==
  locations_with_slots \ seen_locations_with_slots

\* The assignment after the notification was sent.
Replaced(locations_with_slots) == locations_with_slots

\* SeenState that is not cleared when no appointment is left.
SeenAfterNoReset(seen, appointments) ==
  IF appointments # <<>>
    THEN IF NewLocations(LocationsWithSlots(appointments), seen) # {}
           THEN Replaced(LocationsWithSlots(appointments))
           ELSE seen
    ELSE seen

\* SeenState that only ever grows.
SeenAfterMerge(seen, appointments) == seen \cup LocationsWithSlots(appointments)

\* seen_locations_with_slots once the else branch of a cycle has run through:
\* replaced after a notification, kept when nothing is new, cleared when no
\* appointment is left.
SeenAfter(seen, appointments) ==
  IF appointments # <<>>
    THEN IF NewLocations(LocationsWithSlots(appointments), seen) # {}
           THEN Replaced(LocationsWithSlots(appointments))
           ELSE seen
    ELSE {}

NoFrame == None

\* The state after construction: nothing seen, no result, no check times; the
\* subscribers are those of the subscribers file.
Init ==
  /\ seen_locations_with_slots = {}
  /\ last_check_result = None
  /\ location_last_checked = EmptyDict
  /\ subscribers \in SUBSET Chats
  /\ pc = [p \in Procs |-> IF p = "initial" THEN "ready" ELSE "idle"]
  /\ frame = [p \in Procs |-> NoFrame]
  /\ last_cycle = None
  /\ flap = [stage |-> 0, location |-> None]
  /\ poll_site = <<>>
  /\ poll_i = 0
  /\ poll_acc = PollStart
  /\ poll_result = None
  /\ manual = ManualIdle
  /\ walk = WalkIdle
  /\ classify = ClassifyIdle
  /\ notify = NotifyIdle

Finished(p) == IF p = "initial" THEN "done" ELSE "idle"

\* What is kept of an execution of check_and_notify when it ends: the
\* SeenState it started from, the locations its result shows with slots, the
\* locations of the notification it handed to the notifier ({} when it
\* handed none) and how it ended ("completed": it reached its last
\* assignment, "aborted": the except branch caught an exception).
Ended(seen_before, result, notified, how) ==
  Some([seen_before |-> seen_before,
        available |-> LocationsWithSlots(result.appointments),
        notified |-> notified, ended |-> how])

\* check_and_notify from its first line to its first suspension (the first
\* awaited bot.send_message) or, when nothing is awaited, to its end.
Begin(p, site) ==
  /\ LET result == CycleResult[site]
         appointments == result.appointments
         locations_with_slots == LocationsWithSlots(appointments)
         new_locations == NewLocations(locations_with_slots, seen_locations_with_slots)
         new_appointments == NewAppointments(appointments, new_locations)
         targets == subscribers
     IN IF Truthy(GetError(result))
          THEN \* the error branch
               /\ UNCHANGED <<seen_locations_with_slots, location_last_checked>>
               /\ IF last_check_result # None
                     /\ Truthy(GetError(last_check_result[1]))
                     /\ targets # {}
                    THEN /\ pc' = [pc EXCEPT ![p] = "sending"]
                         /\ frame' = [frame EXCEPT ![p] = Some(
                              [kind |-> "status", result |-> result,
                               locations_with_slots |-> {},
                               text |-> {}, pending |-> targets,
                               seen_at_start |-> seen_locations_with_slots])]
                         /\ UNCHANGED <<last_check_result, last_cycle>>
                    ELSE /\ pc' = [pc EXCEPT ![p] = Finished(p)]
                         /\ last_check_result' = Some(result)
                         /\ last_cycle' = Ended(seen_locations_with_slots, result, {},
                                                "completed")
                         /\ UNCHANGED frame
          ELSE /\ location_last_checked' =
                    IF DOMAIN result.location_check_times # {}
                      THEN result.location_check_times
                      ELSE location_last_checked
               /\ IF appointments # <<>> /\ new_locations # {} /\ targets # {}
                    THEN \* suspended in send_appointment_notification
                         /\ pc' = [pc EXCEPT ![p] = "sending"]
                         /\ frame' = [frame EXCEPT ![p] = Some(
                              [kind |-> "appointments", result |-> result,
                               locations_with_slots |-> locations_with_slots,
                               text |-> LocationsWithSlots(new_appointments),
                               pending |-> targets,
                               seen_at_start |-> seen_locations_with_slots])]
                         /\ UNCHANGED <<seen_locations_with_slots, last_check_result,
                                        last_cycle>>
                    ELSE /\ pc' = [pc EXCEPT ![p] = Finished(p)]
                         /\ seen_locations_with_slots' =
                              SeenAfter(seen_locations_with_slots, appointments)
                         /\ last_check_result' = Some(result)
                         /\ last_cycle' = Ended(seen_locations_with_slots, result,
                              IF appointments # <<>> /\ new_locations # {}
                                THEN LocationsWithSlots(new_appointments) ELSE {},
                              "completed")
                         /\ UNCHANGED frame
  /\ UNCHANGED subscribers

\* start(): the scheduler is started, then check_and_notify is awaited.
InitialBegin(site) ==
  /\ pc["initial"] = "ready"
  /\ Begin("initial", site)

\* The interval job fires. The scheduler is started before the initial check
\* begins and runs one instance of the job at a time.
ScheduledBegin(site) ==
  /\ pc["initial"] # "ready"
  /\ pc["scheduled"] = "idle"
  /\ Begin("scheduled", site)

\* One awaited bot.send_message of the delivery loop returns or raises:
\*   "ok"              delivered
\*   "chat not found"  TelegramError whose text holds 'chat not found'
\*   "telegram error"  any other TelegramError
\*   "exception"       an exception that is no TelegramError
\* After the last chat the caller goes on to its end without suspending.
SendOutcomes == {"ok", "chat not found", "telegram error", "exception"}

\* A delivery loop in a cycle that replaced SeenState before it sent.
DeliverAfterReplacing(p, chat_id, outcome) ==
  /\ pc[p] = "sending"
  /\ LET f == frame[p][1]
         left == f.pending \ {chat_id}
     IN /\ chat_id \in f.pending
        /\ subscribers' =
             IF outcome = "chat not found" /\ f.kind = "appointments"
               THEN subscribers \ {chat_id}
               ELSE subscribers
        /\ IF outcome = "exception"
             THEN \* caught by the except of check_and_notify
                  /\ pc' = [pc EXCEPT ![p] = Finished(p)]
                  /\ frame' = [frame EXCEPT ![p] = NoFrame]
                  /\ last_cycle' = Ended(f.seen_at_start, f.result, f.text, "aborted")
                  /\ seen_locations_with_slots' =
                       IF f.kind = "appointments"
                         THEN Replaced(f.locations_with_slots)
                         ELSE seen_locations_with_slots
                  /\ UNCHANGED last_check_result
           ELSE IF left # {}
             THEN /\ frame' = [frame EXCEPT ![p] = Some([f EXCEPT !.pending = left])]
                  /\ UNCHANGED <<pc, seen_locations_with_slots, last_check_result,
                                 last_cycle>>
           ELSE /\ pc' = [pc EXCEPT ![p] = Finished(p)]
                /\ frame' = [frame EXCEPT ![p] = NoFrame]
                /\ seen_locations_with_slots' =
                     IF f.kind = "appointments"
                       THEN Replaced(f.locations_with_slots)
                       ELSE seen_locations_with_slots
                /\ last_check_result' = Some(f.result)
                /\ last_cycle' = Ended(f.seen_at_start, f.result, f.text, "completed")
  /\ UNCHANGED location_last_checked

\* The delivery loop of send_appointment_notification and its caller.
Deliver(p, chat_id, outcome) ==
  /\ pc[p] = "sending"
  /\ LET f == frame[p][1]
         left == f.pending \ {chat_id}
     IN /\ chat_id \in f.pending
        /\ subscribers' =
             IF outcome = "chat not found" /\ f.kind = "appointments"
               THEN subscribers \ {chat_id}
               ELSE subscribers
        /\ IF outcome = "exception"
             THEN \* caught by the except of check_and_notify
                  /\ pc' = [pc EXCEPT ![p] = Finished(p)]
                  /\ frame' = [frame EXCEPT ![p] = NoFrame]
                  /\ last_cycle' = Ended(f.seen_at_start, f.result, f.text, "aborted")
                  /\ UNCHANGED <<seen_locations_with_slots, last_check_result>>
           ELSE IF left # {}
             THEN /\ frame' = [frame EXCEPT ![p] = Some([f EXCEPT !.pending = left])]
                  /\ UNCHANGED <<pc, seen_locations_with_slots, last_check_result,
                                 last_cycle>>
           ELSE /\ pc' = [pc EXCEPT ![p] = Finished(p)]
                /\ frame' = [frame EXCEPT ![p] = NoFrame]
                /\ seen_locations_with_slots' =
                     IF f.kind = "appointments"
                       THEN Replaced(f.locations_with_slots)
                       ELSE seen_locations_with_slots
                /\ last_check_result' = Some(f.result)
                /\ last_cycle' = Ended(f.seen_at_start, f.result, f.text, "completed")
  /\ UNCHANGED location_last_checked

InitialCheck ==
  /\ \E site \in CycleSites : InitialBegin(site)
  /\ UNCHANGED flap
  /\ UNCHANGED poll_vars
  /\ UNCHANGED call_vars

ScheduledCheck ==
  /\ \E site \in CycleSites : ScheduledBegin(site)
  /\ UNCHANGED flap
  /\ UNCHANGED poll_vars
  /\ UNCHANGED call_vars

DeliverNext ==
  /\ \E p \in Procs, chat_id \in Chats, outcome \in SendOutcomes :
       Deliver(p, chat_id, outcome)
  /\ UNCHANGED flap
  /\ UNCHANGED poll_vars
  /\ UNCHANGED call_vars

Next == InitialCheck \/ ScheduledCheck \/ DeliverNext

Spec == Init /\ [][Next]_vars

\* ------------------------------------------------- one run of the poller
\* check_appointments alone, one loop iteration per step, on any site.
InitPoll ==
  /\ seen_locations_with_slots = {}
  /\ last_check_result = None
  /\ location_last_checked = EmptyDict
  /\ subscribers = {}
  /\ pc = [p \in Procs |-> IF p = "initial" THEN "ready" ELSE "idle"]
  /\ frame = [p \in Procs |-> NoFrame]
  /\ last_cycle = None
  /\ flap = [stage |-> 0, location |-> None]
  /\ poll_site \in [LocationIndex -> PollSites]
  /\ poll_i = 0
  /\ poll_acc \in {PollStartWith(kept) : kept \in PollClientCookies}
  /\ poll_result = None
  /\ manual = ManualIdle
  /\ walk = WalkIdle
  /\ classify = ClassifyIdle
  /\ notify = NotifyIdle

PollNext ==
  /\ poll_i < Len(vhs_locations)
  /\ poll_acc' = PollLocation(poll_acc, poll_i + 1, poll_site, Now)
  /\ poll_i' = poll_i + 1
  /\ UNCHANGED <<poll_site, poll_result>>
  /\ UNCHANGED bot_vars
  /\ UNCHANGED flap
  /\ UNCHANGED call_vars

PollReturn ==
  /\ poll_i = Len(vhs_locations)
  /\ poll_result = None
  /\ poll_result' = Some(PollResult(poll_acc, Now))
  /\ UNCHANGED <<poll_site, poll_i, poll_acc>>
  /\ UNCHANGED bot_vars
  /\ UNCHANGED flap
  /\ UNCHANGED call_vars

NextPoll == PollNext \/ PollReturn

SpecPoll == InitPoll /\ [][NextPoll]_vars

\* ------------------------------------------- the cycles, with the scenario
\* The flapping scenario is followed over executions that run one after the
\* other: stage 1 after a completed execution that started from an empty
\* SeenState and found exactly one location, stage 2 after the next one found
\* the same location alone, stage 3 after the next one found none, stage 4
\* after the next one found that location alone again. Any other execution,
\* an aborted one, or two executions overlapping, start over.
NoFlap == [stage |-> 0, location |-> None]

FlapAfter(f, c) ==
  IF c.ended # "completed" THEN NoFlap
  ELSE IF f.stage = 1 /\ c.available = {f.location[1]}
    THEN [stage |-> 2, location |-> f.location]
  ELSE IF f.stage = 2 /\ c.available = {}
    THEN [stage |-> 3, location |-> f.location]
  ELSE IF f.stage = 3 /\ c.available = {f.location[1]}
    THEN [stage |-> 4, location |-> f.location]
  ELSE IF c.seen_before = {} /\ Cardinality(c.available) = 1
    THEN [stage |-> 1, location |-> Some(TheOnly(c.available))]
  ELSE NoFlap

\* The scenario after a step in which execution p began or went on.
FlapStep(p) ==
  flap' =
    IF \E q \in Procs \ {p} : pc[q] = "sending" THEN NoFlap
    ELSE IF pc'[p] = "sending" THEN flap
    ELSE FlapAfter(flap, last_cycle'[1])

FlapInitialCheck ==
  /\ \E site \in CycleSites : InitialBegin(site)
  /\ FlapStep("initial")
  /\ UNCHANGED poll_vars
  /\ UNCHANGED call_vars

FlapScheduledCheck ==
  /\ \E site \in CycleSites : ScheduledBegin(site)
  /\ FlapStep("scheduled")
  /\ UNCHANGED poll_vars
  /\ UNCHANGED call_vars

FlapDeliver ==
  /\ \E p \in Procs :
       /\ \E chat_id \in Chats, outcome \in SendOutcomes : Deliver(p, chat_id, outcome)
       /\ FlapStep(p)
  /\ UNCHANGED poll_vars
  /\ UNCHANGED call_vars

NextFlap == FlapInitialCheck \/ FlapScheduledCheck \/ FlapDeliver

SpecFlap == Init /\ [][NextFlap]_vars

\* ------------------------------------------------------------ manual_check
\* The slices of the replies: result['errors'][:3],
\* list(by_location.items())[:3] and location_apts[:2].
ShownErrors == 3
ShownLocations == 3
ShownDates == 2

\* s[:n]
Take(s, n) == SubSeq(s, 1, IF Len(s) < n THEN Len(s) ELSE n)

\* The dict by_location, as the list of its items in insertion order.
RECURSIVE by_location(_)
by_location(appointments) ==
  IF appointments = <<>> THEN <<>>
  ELSE LET before == by_location(SubSeq(appointments, 1, Len(appointments) - 1))
           apt == appointments[Len(appointments)]
           location == IF Get(apt, "location_name") = None THEN "Unknown"
                       ELSE apt.location_name
       IN IF \E k \in 1..Len(before) : before[k].location = location
            THEN [k \in 1..Len(before) |->
                    IF before[k].location = location
                      THEN [before[k] EXCEPT !.apts = Append(@, apt)]
                      ELSE before[k]]
            ELSE Append(before, [location |-> location, apts |-> <<apt>>])

\* The reply about the failed locations.
ErrorsMessage(errors) == [kind |-> "errors", lines |-> Take(errors, ShownErrors)]

\* The last reply: what was found, or that nothing was.
AvailabilityMessage(appointments) ==
  IF appointments # <<>>
    THEN LET groups == by_location(appointments)
             shown == Take(groups, ShownLocations)
         IN [kind |-> "found",
             appointments |-> Len(appointments),
             locations |-> Len(groups),
             listed |-> [k \in 1..Len(shown) |->
               [location |-> shown[k].location,
                dates |-> [d \in 1..Len(Take(shown[k].apts, ShownDates)) |->
                             IF Get(shown[k].apts[d], "date") = None
                               THEN "Unknown date" ELSE shown[k].apts[d].date],
                more |-> IF Len(shown[k].apts) > ShownDates
                           THEN Len(shown[k].apts) - ShownDates ELSE 0]],
             more_locations |-> IF Len(groups) > ShownLocations
                                  THEN Len(groups) - ShownLocations ELSE 0]
    ELSE [kind |-> "none"]

\* A manual check that resets SeenState as a cycle without slots does.
ManualResetsSeen ==
  /\ seen_locations_with_slots' = {}
  /\ UNCHANGED <<last_check_result, location_last_checked>>

\* What manual_check does to the state of the bot: it assigns to none of it.
ManualKeeps ==
  UNCHANGED <<seen_locations_with_slots, last_check_result, location_last_checked>>

\* An awaited reply_text returns or raises.
ReplyOutcomes == {"ok", "exception"}

\* The /check command arrives: manual_check runs up to its first awaited
\* reply_text.
ManualStart ==
  /\ manual.pc = "idle"
  /\ manual' = [pc |-> "greeting", result |-> None,
                replies |-> << [kind |-> "checking"] >>]
  /\ ManualKeeps

\* The first reply_text returns or raises. An exception ends the handler;
\* otherwise the site is polled, with the given result, and manual_check
\* runs on to its next awaited reply_text.
ManualPoll(outcome, result) ==
  /\ manual.pc = "greeting"
  /\ IF outcome = "exception"
       THEN manual' = ManualIdle
     ELSE IF Truthy(result.errors)
       THEN manual' = [pc |-> "warning", result |-> Some(result),
                       replies |-> Append(manual.replies,
                                     ErrorsMessage(result.errors[1]))]
     ELSE manual' = [pc |-> "answering", result |-> Some(result),
                     replies |-> Append(manual.replies,
                                   AvailabilityMessage(result.appointments))]
  /\ ManualKeeps

\* A later reply_text returns or raises, and manual_check runs on to its last
\* reply_text or to its end.
ManualResume(outcome) ==
  /\ manual.pc \in {"warning", "answering"}
  /\ IF outcome = "ok" /\ manual.pc = "warning"
       THEN manual' = [manual EXCEPT
                         !.pc = "answering",
                         !.replies = Append(@,
                            AvailabilityMessage(manual.result[1].appointments))]
       ELSE manual' = ManualIdle
  /\ ManualKeeps

\* Commands are handled once start() has started the Application and its
\* polling, which it does after the initial check it awaits has ended.
ManualCommand ==
  /\ pc["initial"] = "done"
  /\ ManualStart
  /\ UNCHANGED <<subscribers, pc, frame, last_cycle, flap, walk, classify, notify>>
  /\ UNCHANGED poll_vars

ManualCheck ==
  /\ \E outcome \in ReplyOutcomes, result \in CycleResults : ManualPoll(outcome, result)
  /\ UNCHANGED <<subscribers, pc, frame, last_cycle, flap, walk, classify, notify>>
  /\ UNCHANGED poll_vars

ManualReply ==
  /\ \E outcome \in ReplyOutcomes : ManualResume(outcome)
  /\ UNCHANGED <<subscribers, pc, frame, last_cycle, flap, walk, classify, notify>>
  /\ UNCHANGED poll_vars

\* The bot with the /check command; the subscribers file holds at most the
\* default chat.
InitManual ==
  /\ seen_locations_with_slots = {}
  /\ last_check_result = None
  /\ location_last_checked = EmptyDict
  /\ subscribers \in SUBSET {1}
  /\ pc = [p \in Procs |-> IF p = "initial" THEN "ready" ELSE "idle"]
  /\ frame = [p \in Procs |-> NoFrame]
  /\ last_cycle = None
  /\ flap = [stage |-> 0, location |-> None]
  /\ poll_site = <<>>
  /\ poll_i = 0
  /\ poll_acc = PollStart
  /\ poll_result = None
  /\ manual = ManualIdle
  /\ walk = WalkIdle
  /\ classify = ClassifyIdle
  /\ notify = NotifyIdle

NextManual ==
  InitialCheck \/ ScheduledCheck \/ DeliverNext \/ ManualCommand \/ ManualCheck
    \/ ManualReply

SpecManual == InitManual /\ [][NextManual]_vars

\* ------------------------------------- the redirect walker, step by step
\* Longest script the site answers one chain with (its last answer repeats).
MaxScript == 3

\* What the site may answer to one request of a chain; its cookies are
\* cookies of every path.
WalkAnswers ==
  { Answer(302, Rooted(SessionCookie("s1")), <<DayPath>>, EmptyHtml),
    Answer(303, Rooted(SessionCookie("s2")),
           <<"https://service.berlin.de", StopPath>>, EmptyHtml),
    Answer(301, Rooted(OtherCookie("o1")), <<DayPath>>, EmptyHtml),
    Answer(307, <<>>, <<>>, EmptyHtml),
    Answer(200, Rooted(SessionCookie("s2")), <<>>, CalendarHtml(2)),
    TransportError }

RECURSIVE ScriptsOfLen(_)
ScriptsOfLen(n) ==
  IF n = 0 THEN { <<>> }
  ELSE { Append(s, a) : s \in ScriptsOfLen(n - 1), a \in WalkAnswers }

\* A redirect that leaves the site, and the chains that take it: one with
\* the session cookie of that redirect, one that had received another cookie
\* from the site before. The other host sets no cookie.
WalkOffSite ==
  Answer(302, Rooted(SessionCookie("s1")), <<"http://other.example", DayPath>>,
         EmptyHtml)

OffSiteScripts ==
  { << WalkOffSite, Answer(307, <<>>, <<>>, EmptyHtml) >>,
    << Answer(301, Rooted(OtherCookie("o1")), <<DayPath>>, EmptyHtml), WalkOffSite,
       Answer(307, <<>>, <<>>, EmptyHtml) >> }

WalkScripts == UNION { ScriptsOfLen(n) : n \in 1..MaxScript } \cup OffSiteScripts

\* The locals of _follow_redirects_with_cookies on entry, for the location
\* of index i answered with script, and what self.client keeps: client_cookies
\* now, entered_with when the invocation began.
WalkEntry(i, script, client_cookies) ==
  [pc |-> "loop", location |-> i, script |-> script, cookies |-> {},
   current_url |-> RequestUrl(vhs_locations[i].id), redirect_count |-> 0,
   response |-> None, requests |-> <<>>, client_cookies |-> client_cookies,
   entered_with |-> client_cookies]

\* An except branch that returns what the chain had received before.
WalkFailedKeepsResponse(w, sent) ==
  [w EXCEPT !.pc = "returned", !.requests = sent]

\* The except branch: client.get raised, the walker returns None.
WalkFailed(w, sent) ==
  [w EXCEPT !.pc = "returned", !.requests = sent, !.response = None]

\* A redirect that is followed without being counted.
WalkFollowsUncounted(w, sent, got, jar, location) ==
  [w EXCEPT !.requests = sent, !.response = Some(got), !.cookies = jar,
            !.current_url = IF ~StartsWithHttp(location)
                              THEN base_url \o location ELSE location]

\* A walker that gives up with None when the redirects are used up.
WalkFollowsFailsAtLimit(w, sent, got, jar, location) ==
  [w EXCEPT !.pc = IF w.redirect_count + 1 < max_redirects
                     THEN "loop" ELSE "returned",
            !.requests = sent,
            !.response = IF w.redirect_count + 1 < max_redirects
                           THEN Some(got) ELSE None,
            !.cookies = jar,
            !.current_url = IF ~StartsWithHttp(location)
                              THEN base_url \o location ELSE location,
            !.redirect_count = w.redirect_count + 1]

\* A redirect with a Location header: the walker moves to the new URL and
\* counts the redirect; when the loop condition fails it returns response.
WalkFollows(w, sent, got, jar, location) ==
  [w EXCEPT !.pc = IF w.redirect_count + 1 < max_redirects
                     THEN "loop" ELSE "returned",
            !.requests = sent, !.response = Some(got), !.cookies = jar,
            !.current_url = IF ~StartsWithHttp(location)
                              THEN base_url \o location ELSE location,
            !.redirect_count = w.redirect_count + 1]

\* The two break branches: the walker returns response.
WalkStops(w, sent, got, jar) ==
  [w EXCEPT !.pc = "returned", !.requests = sent, !.response = Some(got),
            !.cookies = jar]

\* One iteration of the while loop, and the return when the loop ends with
\* it.
WalkIteration(w) ==
  LET sent == Append(w.requests,
                     [url |-> w.current_url, cookies |-> w.cookies,
                      cookie_header |-> CookieHeader(w.client_cookies, w.cookies,
                                                   w.current_url)])
      reply == Reply(w.script, Len(sent))
  IN IF reply.kind = "error"
       THEN WalkFailed(w, sent)
       ELSE
         LET got == [status_code |-> reply.status_code, url |-> w.current_url,
                     text |-> reply.html]
             jar == UpdateCookies(w.cookies, reply.set_cookie)
             kept == StoreCookies(w.client_cookies, reply.set_cookie, w.current_url)
         IN [ (IF reply.status_code \in RedirectCodes /\ reply.location # <<>>
                 THEN WalkFollows(w, sent, got, jar, reply.location)
                 ELSE WalkStops(w, sent, got, jar))
              EXCEPT !.client_cookies = kept ]

\* check_appointments calls the walker for a location: the one after the
\* location of the call before in the registry, the first one after the last
\* (the next run of check_appointments).
WalkCall ==
  /\ walk.pc = "idle"
  /\ \E script \in WalkScripts :
       walk' = WalkEntry((walk.location % Len(vhs_locations)) + 1, script,
                         walk.client_cookies)
  /\ UNCHANGED <<manual, classify, flap, notify>>
  /\ UNCHANGED bot_vars
  /\ UNCHANGED poll_vars

\* The walker issues its next request.
WalkRequest ==
  /\ walk.pc = "loop"
  /\ walk.redirect_count < max_redirects
  /\ walk' = WalkIteration(walk)
  /\ UNCHANGED <<manual, classify, flap, notify>>
  /\ UNCHANGED bot_vars
  /\ UNCHANGED poll_vars

\* The walker has returned: its locals are gone, the client stays.
WalkReturn ==
  /\ walk.pc = "returned"
  /\ walk' = [pc |-> "idle", location |-> walk.location,
               client_cookies |-> walk.client_cookies]
  /\ UNCHANGED <<manual, classify, flap, notify>>
  /\ UNCHANGED bot_vars
  /\ UNCHANGED poll_vars

InitWalk ==
  /\ seen_locations_with_slots = {}
  /\ last_check_result = None
  /\ location_last_checked = EmptyDict
  /\ subscribers = {}
  /\ pc = [p \in Procs |-> IF p = "initial" THEN "ready" ELSE "idle"]
  /\ frame = [p \in Procs |-> NoFrame]
  /\ last_cycle = None
  /\ flap = [stage |-> 0, location |-> None]
  /\ poll_site = <<>>
  /\ poll_i = 0
  /\ poll_acc = PollStart
  /\ poll_result = None
  /\ manual = ManualIdle
  /\ walk = WalkIdle
  /\ classify = ClassifyIdle
  /\ notify = NotifyIdle

NextWalk == WalkCall \/ WalkRequest \/ WalkReturn

SpecWalk == InitWalk /\ [][NextWalk]_vars

\* client.get returns or raises: a request under way is answered.
SpecWalkFair == SpecWalk /\ WF_vars(WalkRequest)

\* ------------------------------------------ the classifier, call by call
\* Most td.buchbar cells inside, and outside, the calendar container of a
\* body, and most a.buchbar links and calendar-week-day elements.
MaxCells == 3
MaxLinks == 1

\* The bodies the classifier is called with.
ClassifyBodies ==
  { html \in
      { Html(raises, calendar, td_in, td_out, a_buchbar, week_day,
             alert_warning, alert, keine) :
          raises \in {"none", "construct", "search"}, calendar \in BOOLEAN,
          td_in \in 0..MaxCells, td_out \in 0..MaxCells,
          a_buchbar \in 0..MaxLinks, week_day \in 0..MaxLinks,
          alert_warning \in BOOLEAN, alert \in BOOLEAN, keine \in BOOLEAN } :
      html.calendar \/ html.td_in = 0 }

\* The final URLs of a chain for the location of index i: the request URL
\* when the first response is final, or the page a redirect led to.
ClassifyUrls(i) ==
  { RequestUrl(vhs_locations[i].id) }
    \cup { base_url \o <<path>> : path \in {DayPath, StopPath, TakenPath} }

\* check_appointments calls the classifier with the body and the URL of a
\* final response of status 200.
ClassifyCall ==
  /\ classify.pc = "idle"
  /\ \E i \in LocationIndex, html \in ClassifyBodies :
       \E final_url \in ClassifyUrls(i) :
         classify' = [pc |-> "called", location |-> i, html |-> html,
                      final_url |-> final_url, result |-> None]
  /\ UNCHANGED <<manual, walk, flap, notify>>
  /\ UNCHANGED bot_vars
  /\ UNCHANGED poll_vars

\* The classifier runs and returns.
ClassifyRun ==
  /\ classify.pc = "called"
  /\ classify' =
       [classify EXCEPT
          !.pc = "returned",
          !.result = Some(parse_appointments(classify.html,
                            vhs_locations[classify.location].name,
                            vhs_locations[classify.location].id,
                            classify.final_url))]
  /\ UNCHANGED <<manual, walk, flap, notify>>
  /\ UNCHANGED bot_vars
  /\ UNCHANGED poll_vars

InitClassify == InitWalk

NextClassify == ClassifyCall \/ ClassifyRun

SpecClassify == InitClassify /\ [][NextClassify]_vars

\* ---------------------------------------------------- the notifier alone
\* Chats that talk to the notifier.
NumSubscribers == 2
NotifyChats == 1..NumSubscribers

\* list(self.subscribers): the elements of a set in some order.
Orders(S) ==
  { s \in [1..Cardinality(S) -> S] :
      \A i \in 1..Cardinality(S) : \A j \in 1..Cardinality(S) :
        i # j => s[i] # s[j] }

\* _load_subscribers: the set of the list in the file, set() without a file.
load_subscribers(file) ==
  IF file = None THEN {}
  ELSE {file[1][k] : k \in 1..Len(file[1])}

\* _save_subscribers: the files that hold the subscribers as a list.
save_subscribers(subs) == {Some(order) : order \in Orders(subs)}

\* A loop that stops at the first chat it could not deliver to.
LoopStopsOnError(outcome) == outcome = "ok"

\* The delivery loop goes on after a send_message that returned or raised a
\* TelegramError, which is caught inside the loop.
LoopGoesOn(outcome) == outcome # "exception"

\* No call of send_appointment_notification under way for an execution.
NoSend ==
  [pc |-> "idle", targets |-> {}, pending |-> {}, attempts |-> <<>>,
   ended |-> "none"]

\* TelegramNotifier.__init__ on a subscribers file. send holds, for the
\* initial and for the scheduled execution of check_and_notify, its call of
\* send_appointment_notification. stage tells how far start() has come:
\*   "constructed"  the bot is not constructed yet
\*   "starting"     the scheduler is started, the initial check has not begun
\*   "checking"     the initial check is suspended in its notification
\*   "checked"      the initial check has ended, polling is not started
\*   "running"      polling is started, commands are handled
Constructed(file) ==
  [stage |-> "constructed", file |-> file, send |-> [p \in Procs |-> NoSend]]

InitNotify ==
  /\ seen_locations_with_slots = {}
  /\ last_check_result = None
  /\ location_last_checked = EmptyDict
  /\ \E S \in SUBSET NotifyChats : \E file \in {None} \cup save_subscribers(S) :
       /\ subscribers = load_subscribers(file)
       /\ notify = Constructed(file)
  /\ pc = [p \in Procs |-> IF p = "initial" THEN "ready" ELSE "idle"]
  /\ frame = [p \in Procs |-> NoFrame]
  /\ last_cycle = None
  /\ flap = [stage |-> 0, location |-> None]
  /\ poll_site = <<>>
  /\ poll_i = 0
  /\ poll_acc = PollStart
  /\ poll_result = None
  /\ manual = ManualIdle
  /\ walk = WalkIdle
  /\ classify = ClassifyIdle

NotifyKeeps ==
  /\ UNCHANGED <<seen_locations_with_slots, last_check_result, location_last_checked,
                 pc, frame, last_cycle, flap, manual, walk, classify>>
  /\ UNCHANGED poll_vars

\* No call has ended without having returned to its caller yet.
NoneEnded == \A p \in Procs : notify.send[p].pc # "ended"

\* EinburgerungstestBot.__init__ after the notifier is constructed: the
\* default chat, when one is configured, is added by add_subscriber. Then
\* start() starts the scheduler and awaits the initial check.
NotifyStartUp ==
  /\ notify.stage = "constructed"
  /\ \E default_chat_id \in {None} \cup {Some(c) : c \in NotifyChats} :
       IF default_chat_id # None
         THEN /\ subscribers' = subscribers \cup {default_chat_id[1]}
              /\ \E file \in save_subscribers(subscribers') :
                   notify' = [notify EXCEPT !.stage = "starting", !.file = file]
         ELSE /\ notify' = [notify EXCEPT !.stage = "starting"]
              /\ UNCHANGED subscribers
  /\ NotifyKeeps

\* The initial check runs to its end without a notification. start() goes
\* on to await the start of the Application.
NotifyInitialCheck ==
  /\ notify.stage = "starting"
  /\ notify' = [notify EXCEPT !.stage = "checked"]
  /\ UNCHANGED subscribers
  /\ NotifyKeeps

\* start() has started the Application and its polling: commands are
\* handled from here on.
NotifyServe ==
  /\ notify.stage = "checked"
  /\ NoneEnded
  /\ notify' = [notify EXCEPT !.stage = "running"]
  /\ UNCHANGED subscribers
  /\ NotifyKeeps

\* subscribe_command
NotifySubscribe ==
  /\ notify.stage = "running"
  /\ NoneEnded
  /\ \E chat_id \in NotifyChats :
       IF chat_id \notin subscribers
         THEN /\ subscribers' = subscribers \cup {chat_id}
              /\ \E file \in save_subscribers(subscribers') :
                   notify' = [notify EXCEPT !.file = file]
         ELSE UNCHANGED <<subscribers, notify>>
  /\ NotifyKeeps

\* unsubscribe_command
NotifyUnsubscribe ==
  /\ notify.stage = "running"
  /\ NoneEnded
  /\ \E chat_id \in NotifyChats :
       IF chat_id \in subscribers
         THEN /\ subscribers' = subscribers \ {chat_id}
              /\ \E file \in save_subscribers(subscribers') :
                   notify' = [notify EXCEPT !.file = file]
         ELSE UNCHANGED <<subscribers, notify>>
  /\ NotifyKeeps

\* send_appointment_notification with a non-empty list, up to its first
\* awaited send_message; without subscribers it returns at once. The initial
\* execution of check_and_notify, which start() awaits right after it
\* started the scheduler, calls it before any job instance runs; a scheduled
\* execution calls it once the initial one is suspended or has ended.
NotifySendBegin ==
  /\ NoneEnded
  /\ \E p \in Procs :
       /\ notify.send[p].pc = "idle"
       /\ IF p = "initial" THEN notify.stage = "starting"
          ELSE notify.stage \in {"checking", "checked", "running"}
       /\ LET targets == subscribers
          IN notify' =
               [notify EXCEPT
                  !.stage = IF p = "initial" THEN "checking" ELSE @,
                  !.send[p] =
                     [pc |-> IF targets # {} THEN "sending" ELSE "ended",
                      targets |-> targets, pending |-> targets, attempts |-> <<>>,
                      ended |-> IF targets # {} THEN "none" ELSE "returned"]]
  /\ UNCHANGED subscribers
  /\ NotifyKeeps

\* One awaited send_message of a loop returns or raises, and the loop goes
\* on to the next chat of its copy, or the call ends.
NotifySendNext ==
  /\ NoneEnded
  /\ \E p \in Procs :
       /\ notify.send[p].pc = "sending"
       /\ \E chat_id \in notify.send[p].pending, outcome \in SendOutcomes :
            LET left == notify.send[p].pending \ {chat_id}
                tried == Append(notify.send[p].attempts,
                                [chat_id |-> chat_id, outcome |-> outcome])
            IN /\ subscribers' =
                    IF outcome = "chat not found" THEN subscribers \ {chat_id}
                    ELSE subscribers
               /\ notify' =
                    IF ~LoopGoesOn(outcome)
                      THEN [notify EXCEPT
                              !.send[p] = [@ EXCEPT
                                 !.pc = "ended", !.pending = left,
                                 !.attempts = tried,
                                 !.ended = IF outcome = "exception"
                                             THEN "raised" ELSE "returned"]]
                    ELSE IF left # {}
                      THEN [notify EXCEPT
                              !.send[p] = [@ EXCEPT !.pending = left,
                                                    !.attempts = tried]]
                    ELSE [notify EXCEPT
                            !.send[p] = [@ EXCEPT
                               !.pc = "ended", !.pending = left,
                               !.attempts = tried, !.ended = "returned"]]
  /\ NotifyKeeps

\* The call is over: check_and_notify goes on to its end with nothing
\* awaited in between. After the initial execution start() goes on to await
\* the start of the Application.
NotifySendReturn ==
  /\ \E p \in Procs :
       /\ notify.send[p].pc = "ended"
       /\ notify' = [notify EXCEPT
                       !.send[p] = NoSend,
                       !.stage = IF p = "initial" THEN "checked" ELSE @]
  /\ UNCHANGED subscribers
  /\ NotifyKeeps

\* The process is started again: the notifier is constructed on the file.
NotifyRestart ==
  /\ notify.stage \in {"starting", "checking", "checked", "running"}
  /\ NoneEnded
  /\ subscribers' = load_subscribers(notify.file)
  /\ notify' = Constructed(notify.file)
  /\ NotifyKeeps

NextNotify ==
  NotifyStartUp \/ NotifyInitialCheck \/ NotifyServe \/ NotifySubscribe \/ NotifyUnsubscribe
    \/ NotifySendBegin \/ NotifySendNext \/ NotifySendReturn \/ NotifyRestart

SpecNotify == InitNotify /\ [][NextNotify]_vars

\* ===================================================================== claims
Available(result) == LocationsWithSlots(result.appointments)

Sending(p) == pc[p] = "sending" /\ frame[p][1].kind = "appointments"

\* The step is the first one of an execution of check_and_notify, the
\* initial or a scheduled one, with the site's answers: the execution was
\* not under way before, and the step is not one of a command handler.
Enters(p, site) ==
  /\ IF p = "initial" THEN InitialBegin(site) ELSE ScheduledBegin(site)
  /\ UNCHANGED call_vars

\* Some execution of check_and_notify begins for p in the step.
Begins(p) == \E site \in CycleSites : Enters(p, site)

\* The locations execution p hands to the notifier, right after its first step.
ToNotifyAfterBegin(p) ==
  IF pc'[p] = "sending" THEN frame'[p][1].text ELSE last_cycle'[1].notified

\* C1: after every completed cycle SeenState equals exactly the set of
\* locations that cycle found AVAILABLE, whatever the previous SeenState was
\* (also when the available set is a strict subset of it).
C1_SeenIsAvailable ==
  (last_cycle # None /\ last_cycle[1].ended = "completed")
    => seen_locations_with_slots = last_cycle[1].available

\* C2: the locations a cycle notifies are exactly its available locations
\* minus the SeenState at its start, and no notification is handed over when
\* that difference is empty.
C2_NotifiedIsNew ==
  /\ \A p \in Procs :
       Sending(p) =>
         /\ frame[p][1].text = Available(frame[p][1].result) \ frame[p][1].seen_at_start
         /\ frame[p][1].text # {}
  /\ last_cycle # None =>
       last_cycle[1].notified = last_cycle[1].available \ last_cycle[1].seen_before

\* A cycle is notifying a new location while suppressing one already seen.
C2_Witness ==
  \E p \in Procs :
    /\ Sending(p)
    /\ frame[p][1].seen_at_start # {}
    /\ frame[p][1].text # {}
    /\ frame[p][1].text # Available(frame[p][1].result)

\* C3: reset law: after a completed cycle that found no AVAILABLE location
\* SeenState is empty, whatever it was before and whether or not location
\* checks failed.
C3_ResetLaw ==
  (last_cycle # None /\ last_cycle[1].ended = "completed"
     /\ last_cycle[1].available = {})
    => seen_locations_with_slots = {}

\* A cycle with failed location checks has cleared a non-empty SeenState.
C3_Witness ==
  /\ last_cycle # None
  /\ last_cycle[1].ended = "completed"
  /\ last_cycle[1].available = {}
  /\ last_cycle[1].seen_before # {}
  /\ last_check_result # None
  /\ last_check_result[1].errors # None
  /\ seen_locations_with_slots = {}

\* C4: idempotence: a cycle that gets the same aggregate as the completed
\* cycle before it, and starts from the SeenState that one left, notifies
\* nothing.
C4_Idempotent ==
  [][\A p \in Procs : \A site \in CycleSites :
       ( /\ last_cycle # None
         /\ last_cycle[1].ended = "completed"
         /\ last_check_result = Some(CycleResult[site])
         /\ Enters(p, site) )
       => /\ pc'[p] # "sending"
          /\ last_cycle'[1].notified = {}]_vars

\* A cycle found exactly the locations the SeenState it started from was
\* replaced with, and notified nothing.
C4_Witness ==
  /\ last_cycle # None
  /\ last_cycle[1].ended = "completed"
  /\ last_cycle[1].available # {}
  /\ last_cycle[1].seen_before = last_cycle[1].available
  /\ last_cycle[1].notified = {}
  /\ last_check_result # None
  /\ Available(last_check_result[1]) = last_cycle[1].available
  /\ \A p \in Procs : pc[p] # "sending"

\* C5: flapping scenario from an empty SeenState: (1) only A available: A is
\* notified and SeenState = {A}; (2) A still available alone: nothing is
\* notified, SeenState = {A}; (3) nothing available: SeenState = {}; (4) A
\* available again: A is notified again.
C5_Flapping ==
  flap.stage > 0 =>
    LET A == flap.location[1]
        c == last_cycle[1]
    IN /\ flap.stage = 1 =>
            c.notified = {A} /\ seen_locations_with_slots = {A}
       /\ flap.stage = 2 =>
            c.notified = {} /\ seen_locations_with_slots = {A}
       /\ flap.stage = 3 => seen_locations_with_slots = {}
       /\ flap.stage = 4 => c.notified = {A}

\* The fourth cycle of the scenario has ended.
C5_Witness == flap.stage = 4

\* C6: a location that is not AVAILABLE in one completed cycle and AVAILABLE
\* in the next one is in the notification of that next cycle.
C6_ReappearanceNotified ==
  [][\A p \in Procs : \A site \in CycleSites :
       ( /\ Enters(p, site)
         /\ \A q \in Procs : pc[q] # "sending"
         /\ last_cycle # None
         /\ last_cycle[1].ended = "completed" )
       => \A name \in Available(CycleResult[site]) \ last_cycle[1].available :
            name \in ToNotifyAfterBegin(p)]_vars

\* ---- the poller
\* What the poller makes of the i-th location on a site, in the terms of the
\* data model.
PollOutcome(site, i) ==
  LET walked == follow_redirects_with_cookies(site[i], RequestUrl(vhs_locations[i].id),
                                              NoCookies)
  IN IF walked.response = None THEN "NETWORK_ERROR"
     ELSE IF walked.response[1].status_code # 200 THEN "HTTP_ERROR"
     ELSE LET parsed == parse_appointments(walked.response[1].text,
                          vhs_locations[i].name, vhs_locations[i].id,
                          walked.response[1].url)
          IN IF parsed.status = "parse_error" THEN "PARSE_ERROR"
             ELSE IF parsed.appointments # <<>> THEN "AVAILABLE"
             ELSE "NO_SLOTS"

\* The positions of the entries of a list that belong to a location.
AppointmentsOf(result, name) ==
  {k \in 1..Len(result.appointments) : result.appointments[k].location_name = name}

ErrorList(result) == IF result.errors = None THEN <<>> ELSE result.errors[1]

ErrorsOf(result, name) ==
  {k \in 1..Len(ErrorList(result)) : ErrorList(result)[k][1] = name}

\* The outcome a returned dict holds for a location: that of its one
\* appointment entry or error entry, NO_SLOTS when it has a check time and
\* no entry; "MANY" for more than one entry, "NONE" for nothing at all. No
\* key of the dict stands for PARSE_ERROR.
Held(result, name) ==
  LET apts == AppointmentsOf(result, name)
      errs == ErrorsOf(result, name)
  IN IF Cardinality(apts) + Cardinality(errs) > 1 THEN "MANY"
     ELSE IF apts # {} THEN "AVAILABLE"
     ELSE IF \E k \in errs : ErrorList(result)[k] = << name, ": No response" >>
       THEN "NETWORK_ERROR"
     ELSE IF \E k \in errs : ErrorList(result)[k][2] = ": HTTP " THEN "HTTP_ERROR"
     ELSE IF errs # {} THEN "MANY"
     ELSE IF name \in DOMAIN result.location_check_times THEN "NO_SLOTS"
     ELSE "NONE"

\* C7: check_appointments goes through every registered location exactly
\* once, in registry order, and its result holds exactly one outcome for
\* every registered location, the one the check of that location had:
\* AVAILABLE with a slot count, NO_SLOTS, HTTP_ERROR, PARSE_ERROR or
\* NETWORK_ERROR.
C7_OneOutcomePerLocation ==
  poll_result # None =>
    LET r == poll_result[1]
    IN /\ [k \in 1..Len(poll_acc.visited) |-> poll_acc.visited[k].location_id]
            = [i \in LocationIndex |-> vhs_locations[i].id]
       /\ \A i \in LocationIndex :
            LET name == vhs_locations[i].name
            IN /\ Held(r, name) = PollOutcome(poll_site, i)
               /\ Held(r, name) = "AVAILABLE" =>
                    \A k \in AppointmentsOf(r, name) : r.appointments[k].slot_count > 0

\* What a result holds about the locations other than the i-th.
Others(result, i) ==
  LET name == vhs_locations[i].name
  IN [appointments |-> SelectSeq(result.appointments,
                                 LAMBDA apt : apt.location_name # name),
      errors |-> SelectSeq(ErrorList(result), LAMBDA e : e[1] # name),
      location_check_times |->
        [n \in (DOMAIN result.location_check_times) \ {name} |->
           result.location_check_times[n]]]

\* C8: failure isolation: when the check of a location ends in a network
\* failure, every location is still checked, that location is recorded as
\* failed, the status is partial_success, and what the result holds about the
\* other locations is what it would hold had that location succeeded.
C8_FailureIsolated ==
  poll_result # None =>
    \A i \in LocationIndex :
      PollOutcome(poll_site, i) = "NETWORK_ERROR" =>
        LET r == poll_result[1]
        IN /\ Len(poll_acc.visited) = Len(vhs_locations)
           /\ DOMAIN r.location_check_times = LocationNames
           /\ \E k \in ErrorsOf(r, vhs_locations[i].name) :
                ErrorList(r)[k] = <<vhs_locations[i].name, ": No response">>
           /\ r.status = "partial_success"
           /\ \A good \in {SiteAvailable, SiteStop, SiteBlank} :
                Others(check_appointments([poll_site EXCEPT ![i] = good], Now), i)
                  = Others(r, i)

\* A run has returned in which a location timed out in mid-chain and a later
\* location has slots.
C8_Witness ==
  /\ poll_result # None
  /\ \E i \in LocationIndex : \E j \in LocationIndex :
       /\ i < j
       /\ poll_site[i] = SiteTimeoutLater
       /\ PollOutcome(poll_site, j) = "AVAILABLE"
       /\ AppointmentsOf(poll_result[1], vhs_locations[j].name) # {}

\* C9: the status of a cycle is success exactly when no location produced
\* NETWORK_ERROR, HTTP_ERROR or PARSE_ERROR.
C9_StatusReflectsErrors ==
  poll_result # None =>
    ( poll_result[1].status = "success"
        <=> \A i \in LocationIndex :
              PollOutcome(poll_site, i) \notin
                {"NETWORK_ERROR", "HTTP_ERROR", "PARSE_ERROR"} )

\* ---- the scheduler
\* C10: no execution of check_and_notify begins while another one has not
\* run to its end.
C10_NoOverlap ==
  [][\A p \in Procs : Begins(p) => \A q \in Procs : pc[q] # "sending"]_vars

\* ---- the /check command
\* Some step of manual_check is taken.
ManualSteps == manual' # manual

\* C11: manual_check never modifies SeenState, last_check_result or the
\* per-location last-checked record, however its steps interleave with the
\* cycles; SeenState changes only in a step of check_and_notify.
C11_ManualReadOnly ==
  [][/\ ManualSteps =>
          /\ seen_locations_with_slots' = seen_locations_with_slots
          /\ last_check_result' = last_check_result
          /\ location_last_checked' = location_last_checked
     /\ seen_locations_with_slots' # seen_locations_with_slots =>
          \E p \in Procs :
            \/ Begins(p)
            \/ \E chat_id \in Chats, outcome \in SendOutcomes :
                 Deliver(p, chat_id, outcome)]_vars

\* A manual check that found failures and slots is about to send its last
\* reply while a cycle is suspended in a notification and SeenState and the
\* other two records are set.
C11_Witness ==
  /\ manual.pc = "answering"
  /\ Len(manual.replies) = 3
  /\ manual.result[1].appointments # <<>>
  /\ \E p \in Procs : pc[p] = "sending"
  /\ seen_locations_with_slots # {}
  /\ last_check_result # None
  /\ Available(manual.result[1]) # seen_locations_with_slots
  /\ manual.result[1] # last_check_result[1]

\* The error lines the replies of the manual check under way show.
ReportedErrors ==
  UNION { {manual.replies[k].lines[l] : l \in 1..Len(manual.replies[k].lines)} :
            k \in {n \in 1..Len(manual.replies) : manual.replies[n].kind = "errors"} }

\* C12: a manual check reports every location whose check failed: once its
\* replies are out, each error of the result is among the reported lines.
C12_AllFailuresReported ==
  manual.pc = "answering" =>
    \A k \in 1..Len(ErrorList(manual.result[1])) :
      ErrorList(manual.result[1])[k] \in ReportedErrors

\* ---- the redirect walker
\* The requests of the walker invocation under way or just returned.
WalkRequests == IF walk.pc = "idle" THEN <<>> ELSE walk.requests

\* What the function of the walker returns on the script of the invocation.
WalkFunction ==
  follow_redirects_with_cookies(walk.script,
                                RequestUrl(vhs_locations[walk.location].id),
                                walk.entered_with)

\* C13: whatever the site answers, one invocation of the walker issues at
\* most max_redirects requests after the first one, and it terminates; what
\* it returns, and the requests it issued, are those of the while loop.
C13_WalkerBounded ==
  /\ [](/\ Len(WalkRequests) <= 1 + max_redirects
        /\ walk.pc = "returned" =>
             /\ walk.response = WalkFunction.response
             /\ walk.requests = WalkFunction.requests
             /\ walk.client_cookies = WalkFunction.client_cookies)
  /\ (walk.pc = "loop" ~> walk.pc = "returned")

\* The walker returned after the most requests it issues, on a script of
\* three different redirects.
C13_Witness ==
  /\ walk.pc = "returned"
  /\ walk.redirect_count = max_redirects
  /\ Len(walk.requests) = max_redirects
  /\ Len(walk.script) = 3
  /\ walk.script[1] # walk.script[2]
  /\ walk.script[2] # walk.script[3]

\* What one iteration of the poller's loop makes of the invocation: the
\* locals of check_appointments after the location the walker ran for.
WalkPolled ==
  PollLocation(PollStart, walk.location,
               [j \in LocationIndex |-> walk.script], Now)

\* The same, had the site answered the first request with the response the
\* walker returned, as a response that is no redirect to follow.
WalkPolledDirectly ==
  PollLocation(PollStart, walk.location,
               [j \in LocationIndex |->
                  << Answer(walk.response[1].status_code, <<>>, <<>>,
                            walk.response[1].text) >>], Now)

\* The walker returned because the redirects were used up.
WalkExhausted ==
  /\ walk.pc = "returned"
  /\ walk.redirect_count = max_redirects

\* C14: when the redirects are used up the walker returns the last response
\* it received, not None, and the poller treats it as it treats a final
\* response of that status: the location gets an HTTP error with the status
\* code, and its check time.
C14_ExhaustedReturnsLast ==
  WalkExhausted =>
    LET last == Reply(walk.script, Len(walk.requests))
    IN /\ walk.response # None
       /\ walk.response[1].status_code = last.status_code
       /\ walk.response[1].text = last.html
       /\ walk.response[1].url = walk.requests[Len(walk.requests)].url
       /\ WalkPolled.errors = WalkPolledDirectly.errors
       /\ WalkPolled.all_appointments = WalkPolledDirectly.all_appointments
       /\ WalkPolled.location_check_times = WalkPolledDirectly.location_check_times
       /\ WalkPolled.errors =
            << <<vhs_locations[walk.location].name, ": HTTP ", last.status_code>> >>

\* The redirects were used up on a chain that ended with a 303 to an
\* absolute URL and had set the session cookie.
C14_Witness ==
  /\ WalkExhausted
  /\ walk.response # None
  /\ walk.response[1].status_code = 303
  /\ walk.cookies # {}
  /\ walk.requests[1].url # walk.requests[2].url

\* C15: a transport failure ends the invocation at once: the failed request
\* is the last one, the walker returns None whatever it had received, and
\* the poller records the location as "No response".
C15_TransportFailureAborts ==
  \A k \in 1..Len(WalkRequests) :
    Reply(walk.script, k).kind = "error" =>
      /\ k = Len(walk.requests)
      /\ walk.pc = "returned"
      /\ walk.response = None
      /\ WalkPolled.errors =
           << <<vhs_locations[walk.location].name, ": No response">> >>
      /\ WalkPolled.all_appointments = <<>>

\* The third request of a chain failed after two responses, one of which set
\* the session cookie.
C15_Witness ==
  /\ walk.pc = "returned"
  /\ Len(walk.requests) = 3
  /\ Reply(walk.script, 3).kind = "error"
  /\ walk.cookies # {}
  /\ walk.response = None

\* ---- the session cookie
\* The session-cookie value of a Set-Cookie text that names the session
\* cookie: the text between 'Zmsappointment=' and the next ';'.
RECURSIVE SessionValue(_)
SessionValue(text) ==
  IF text[1] = "Zmsappointment" /\ text[2] = "="
    THEN LET RECURSIVE UpToSemicolon(_)
             UpToSemicolon(rest) ==
               IF rest = <<>> \/ Head(rest) = ";" THEN <<>>
               ELSE << Head(rest) >> \o UpToSemicolon(Tail(rest))
         IN UpToSemicolon(Tail(Tail(text)))
    ELSE SessionValue(Tail(text))

\* The cookie map the first n answers of a script leave: the session-cookie
\* value of the last answer among them that names the session cookie, empty
\* when none does.
RECURSIVE SessionAfter(_, _)
SessionAfter(script, n) ==
  IF n = 0 THEN {}
  ELSE LET reply == Reply(script, n)
       IN IF /\ reply.kind = "response"
             /\ \E c \in 1..Len(reply.set_cookie) :
                  reply.set_cookie[c].name = "Zmsappointment"
            THEN { << "Zmsappointment", SessionValue(HeaderText(reply.set_cookie)) >> }
            ELSE SessionAfter(script, n - 1)

\* The cookies the first n answers of a script set.
ReceivedBefore(script, n) ==
  UNION { {[name |-> Reply(script, j).set_cookie[c].name,
            value |-> << Reply(script, j).set_cookie[c].value >>] :
             c \in 1..Len(Reply(script, j).set_cookie)} :
            j \in {j \in 1..n : Reply(script, j).kind = "response"} }

\* The cookies of the Cookie header of a request.
Carried(request) ==
  {request.cookie_header[c] : c \in 1..Len(request.cookie_header)}

\* The cookies a request may carry whatever the run received: the cookies=
\* argument, and the cookie the client had from an earlier run.
NotOfThisRun(request) ==
  {[name |-> c[1], value |-> c[2]] : c \in request.cookies}
    \cup {[name |-> EarlierRun[1].name, value |-> << EarlierRun[1].value >>]}

\* C16: in every walker invocation of a run of check_appointments the cookie
\* map is empty at the first request; every later request has in its map,
\* and carries, the session-cookie value of the last response of its chain
\* that named the session cookie; and no request carries a cookie that the
\* run received while it checked another location: besides the map, it
\* carries only cookies that the responses of its own chain set.
C16_CookieProtocol ==
  \A l \in 1..Len(poll_acc.visited) :
    LET requests == poll_acc.visited[l].requests
    IN \A k \in 1..Len(requests) :
         /\ k = 1 => requests[k].cookies = {}
         /\ requests[k].cookies = SessionAfter(poll_site[l], k - 1)
         /\ \A c \in SessionAfter(poll_site[l], k - 1) :
              [name |-> c[1], value |-> c[2]] \in Carried(requests[k])
         /\ Carried(requests[k]) \subseteq
              ReceivedBefore(poll_site[l], k - 1) \cup NotOfThisRun(requests[k])

\* ---- the classifier
\* The final URL of the call is the stop page or the taken page.
TerminalUrl ==
  Contains(classify.final_url, StopPath) \/ Contains(classify.final_url, TakenPath)

\* The slot count of the returned classification.
SlotCount ==
  IF classify.result[1].appointments = <<>> THEN 0
  ELSE classify.result[1].appointments[1].slot_count

\* C17: on a stop or taken final URL the classifier returns no_appointments
\* with no slots for every body, bookable cells or not, parsable or not.
C17_TerminalUrlNoSlots ==
  classify.pc = "returned" /\ TerminalUrl =>
    /\ classify.result[1].status = "no_appointments"
    /\ SlotCount = 0

\* C18: on a page with a calendar container that is no terminal page, the
\* slot count is the number of bookable cells inside the container, and the
\* location is available exactly when there is such a cell.
C18_CountsContainerCells ==
  /\ classify.pc = "returned"
  /\ ~TerminalUrl
  /\ classify.html.calendar
  /\ classify.html.raises = "none"
  => /\ SlotCount = classify.html.td_in
     /\ classify.result[1].appointments # <<>> <=> classify.html.td_in > 0

\* Handling the body of the call raises an exception in the classifier.
ClassifyRaised ==
  \/ classify.html.raises = "construct"
  \/ classify.html.raises = "search" /\ ~TerminalUrl

\* A site on which the poller reaches the call for its location, and finds
\* slots at every other location.
ClassifySite ==
  [j \in LocationIndex |->
     IF j # classify.location THEN SiteAvailable
     ELSE IF classify.final_url = RequestUrl(vhs_locations[j].id)
       THEN << Answer(200, <<>>, <<>>, classify.html) >>
       ELSE << Answer(302, SessionCookie("s1"),
                      SubSeq(classify.final_url, 2, Len(classify.final_url)),
                      EmptyHtml),
               Answer(200, <<>>, <<>>, classify.html) >>]

\* C20: an exception raised while classifying becomes a parse_error result
\* with no appointments and the error detail; the classifier returns, and
\* the poller goes on to check every other location.
C20_ParseErrorContained ==
  classify.pc = "returned" /\ ClassifyRaised =>
    /\ classify.result[1].status = "parse_error"
    /\ classify.result[1].appointments = <<>>
    /\ "error" \in DOMAIN classify.result[1]
    /\ LET polled == check_appointments(ClassifySite, Now)
       IN /\ DOMAIN polled.location_check_times = LocationNames
          /\ \A j \in LocationIndex \ {classify.location} :
               AppointmentsOf(polled, vhs_locations[j].name) # {}
          /\ AppointmentsOf(polled, vhs_locations[classify.location].name) = {}

\* A search of a page with bookable cells raised, at a location that is not
\* the last of the registry.
C20_Witness ==
  /\ classify.pc = "returned"
  /\ classify.html.raises = "search"
  /\ ~TerminalUrl
  /\ classify.html.td_in > 0
  /\ classify.location < Len(vhs_locations)
  /\ classify.result[1].status = "parse_error"

\* ---- the check times
\* C19: every location the loop of a cycle has been through has its check
\* time, whatever the outcome of its check, and no other location has one;
\* the returned record has one entry per registered location.
C19_EveryLocationTimed ==
  /\ DOMAIN poll_acc.location_check_times =
       {vhs_locations[i].name : i \in 1..poll_i}
  /\ \A name \in DOMAIN poll_acc.location_check_times :
       poll_acc.location_check_times[name] = Now
  /\ poll_result # None =>
       poll_result[1].location_check_times = [name \in LocationNames |-> Now]

\* A cycle has returned whose locations ended in a parse error, a network
\* failure in mid-chain, an HTTP error and without slots.
C19_Witness ==
  /\ poll_result # None
  /\ {"PARSE_ERROR", "NETWORK_ERROR", "HTTP_ERROR", "NO_SLOTS"}
       \subseteq {PollOutcome(poll_site, i) : i \in LocationIndex}
  /\ \E i \in LocationIndex : poll_site[i] = SiteTimeoutLater

\* ---- the classifier's branches
\* The body of the call has one of the no-appointments indicators.
Indicated ==
  classify.html.alert_warning \/ classify.html.alert \/ classify.html.keine_termin

\* The call ran through the searches of a page that is no terminal page.
Classified ==
  /\ classify.pc = "returned"
  /\ ~TerminalUrl
  /\ classify.html.raises = "none"

\* C21: on a page that is no terminal page, a count of bookable elements
\* above zero gives one appointment with that count, indicator or not; a
\* count of zero gives no appointment, with status no_appointments when an
\* indicator is present and status success when there is none.
C21_ClassifierPriority ==
  Classified =>
    LET result == classify.result[1]
        count == AvailableDays(classify.html)
    IN /\ count > 0 =>
            /\ result.status = "success"
            /\ Len(result.appointments) = 1
            /\ result.appointments[1].has_slots
            /\ result.appointments[1].slot_count = count
       /\ count = 0 =>
            /\ result.appointments = <<>>
            /\ Indicated => result.status = "no_appointments"
            /\ ~Indicated => result.status = "success"

\* A page with two bookable cells in its calendar and a 'keine Termine'
\* text was classified as available.
C21_Witness ==
  /\ Classified
  /\ classify.html.calendar
  /\ classify.html.td_in = 2
  /\ classify.html.keine_termin
  /\ classify.result[1].appointments # <<>>

\* ---- the status update
\* C22: an execution of check_and_notify hands a status update to the
\* notifier exactly when its result reports failed locations and the result
\* of the execution before it did so too.
C22_PersistentErrorsReported ==
  [][\A p \in Procs : \A site \in CycleSites :
       /\ last_check_result # None
       /\ subscribers # {}
       /\ pc'[p] # pc[p]
       /\ Enters(p, site)
       => ( /\ CycleResult[site].errors # None
            /\ last_check_result[1].errors # None
            <=> /\ pc'[p] = "sending"
                /\ frame'[p][1].kind = "status" )]_vars

\* ---- SeenState after a cycle
\* C23: after an execution of check_and_notify that completed, every
\* location its result shows with slots is in SeenState; and an execution
\* that begins after a completed one, with no other under way, notifies no
\* location that has slots in both.
C23_AvailableIsSeen ==
  /\ [](last_cycle # None /\ last_cycle[1].ended = "completed"
          => last_cycle[1].available \subseteq seen_locations_with_slots)
  /\ [][\A p \in Procs : \A site \in CycleSites :
          ( /\ last_cycle # None
            /\ last_cycle[1].ended = "completed"
            /\ \A q \in Procs : pc[q] # "sending"
            /\ Enters(p, site) )
          => \A name \in Available(CycleResult[site]) \cap last_cycle[1].available :
               name \notin ToNotifyAfterBegin(p)]_vars

\* An execution has completed that notified a new location next to one it
\* had seen before, and both are in SeenState.
C23_Witness ==
  /\ last_cycle # None
  /\ last_cycle[1].ended = "completed"
  /\ last_cycle[1].notified # {}
  /\ last_cycle[1].seen_before \cap last_cycle[1].available # {}
  /\ last_cycle[1].available \subseteq seen_locations_with_slots
  /\ \A q \in Procs : pc[q] # "sending"

\* ---- a send that raises
\* An awaited send of execution p raises an exception that is no
\* TelegramError in this step.
SendRaises(p) == \E chat_id \in Chats : Deliver(p, chat_id, "exception")

\* C24: SeenState changes only in a step that ends an execution as
\* completed, never while a send is under way; a send that raises ends the
\* execution at once, caught, with SeenState and last_check_result as they
\* were; and the next execution, when SeenState still is what the aborted
\* one started from, notifies again every location of the lost notification
\* that still has slots.
C24_SendFailureKeepsState ==
  /\ [][seen_locations_with_slots' # seen_locations_with_slots
          => last_cycle'[1].ended = "completed"]_vars
  /\ [][\A p \in Procs :
          pc[p] = "sending" /\ SendRaises(p) =>
            /\ seen_locations_with_slots' = seen_locations_with_slots
            /\ last_check_result' = last_check_result
            /\ pc'[p] = Finished(p)
            /\ last_cycle'[1].ended = "aborted"]_vars
  /\ [][\A p \in Procs : \A site \in CycleSites :
          ( /\ last_cycle # None
            /\ last_cycle[1].ended = "aborted"
            /\ seen_locations_with_slots = last_cycle[1].seen_before
            /\ \A q \in Procs : pc[q] # "sending"
            /\ Enters(p, site) )
          => \A name \in last_cycle[1].notified \cap Available(CycleResult[site]) :
               name \in ToNotifyAfterBegin(p)]_vars

\* A send raised in the execution after one that had completed: SeenState
\* and last_check_result are still those of the completed one, and the
\* notification that was lost named a location.
C24_Witness ==
  /\ last_cycle # None
  /\ last_cycle[1].ended = "aborted"
  /\ last_cycle[1].notified # {}
  /\ last_cycle[1].seen_before # {}
  /\ seen_locations_with_slots = last_cycle[1].seen_before
  /\ last_check_result # None
  /\ Available(last_check_result[1]) # last_cycle[1].available

\* ---- the notifier
\* The chats a call of send_appointment_notification has attempted.
Attempted(p) ==
  {notify.send[p].attempts[k].chat_id : k \in 1..Len(notify.send[p].attempts)}

\* C25: a send attempts every chat that was subscribed when it began, each
\* once: no chat twice, none that was not subscribed then; a TelegramError
\* does not end it, so a send that returned has attempted them all; and
\* subscribing or unsubscribing while it runs, or another send that runs at
\* the same time, leaves its chats as they are.
C25_EverySubscriberAttempted ==
  /\ [](\A p \in Procs :
          LET send == notify.send[p]
          IN /\ Cardinality(Attempted(p)) = Len(send.attempts)
             /\ Attempted(p) \cup send.pending = send.targets
             /\ Attempted(p) \cap send.pending = {}
             /\ send.ended = "returned" => Attempted(p) = send.targets
             /\ send.ended = "raised" =>
                  send.attempts[Len(send.attempts)].outcome = "exception"
             /\ send.pc = "sending" => send.pending # {})
  /\ [][\A p \in Procs :
          notify.send[p].pc = "sending" /\ notify'.send[p].pc # "idle"
            => notify'.send[p].targets = notify.send[p].targets]_vars

\* A send of a scheduled execution to two chats returned although the first
\* attempt raised a TelegramError, after both its chats had left the set of
\* subscribers, one by unsubscribing while the send was under way.
C25_Witness ==
  /\ notify.stage = "running"
  /\ notify.send["scheduled"].ended = "returned"
  /\ Cardinality(notify.send["scheduled"].targets) = 2
  /\ notify.send["scheduled"].attempts[1].outcome = "telegram error"
  /\ notify.send["scheduled"].attempts[2].outcome = "chat not found"
  /\ subscribers = {}
  /\ load_subscribers(notify.file) # notify.send["scheduled"].targets

\* C26: the list in the subscribers file is the set of subscribers in
\* memory, so that a restart loads the current subscribers.
C26_FileIsMemory ==
  load_subscribers(notify.file) = subscribers

====
